---- MODULE Spec2Model ----
(***************************************************************************)
(* Request pipeline of the CobranSaaS API client                           *)
(* (src/src/cobransaas_mcp/api/client.py): the sliding-window RateLimiter, *)
(* the OAuth2 token cache of CobranSaaSClient, the retrying _request and   *)
(* get_paginated.                                                          *)
(*                                                                         *)
(* Scheduling is asyncio's: one task runs at a time (running) until it     *)
(* awaits something that is not ready (a held lock, a sleep, the network). *)
(* A task woken by a lock release is in the loop's ready queue and runs    *)
(* before any timer or network event is delivered (NoReady).               *)
(* Time is counted in whole seconds; time.monotonic() and time.time() are  *)
(* both read from the clock now.                                           *)
(***************************************************************************)
EXTENDS Integers, Sequences, FiniteSets, TLC

\* ------------------------------------------------------------------ bounds
NTasks == 2
MaxTime == 9
MaxCalls == 3
MaxCfgRequests == 2
MaxCfgWindow == 2
MaxFaults == 5
SmallCeiling == 2

\* ------------------------------------------------------- program constants
ClientMaxRequests == 10
ClientWindowSeconds == 1
ExpiryBuffer == 60
DefaultExpiresIn == 3600
max_retries == 3

Tasks == 1..NTasks

VARIABLES
    now,            \* the clock (seconds)
    running,        \* the task the event loop is running: {} or {t}
    calls,          \* top-level calls the callers may still start
    faults,         \* abnormal answers the server and transport may still give
    max_requests,   \* RateLimiter.max_requests
    window_seconds, \* RateLimiter.window_seconds
    timestamps,     \* RateLimiter._timestamps
    rate_lock,      \* RateLimiter._lock
    admitted,       \* history: admission instants still inside the trailing window
    dispatched,     \* history: instants, still inside the trailing window, at
                    \* which HTTPS calls to the API were issued
    acq,            \* per task: history of its current call of RateLimiter.acquire
    burst,          \* history: calls of acquire issued, instant of the first admission
    token,          \* CobranSaaSClient._token
    token_lock,     \* CobranSaaSClient._token_lock
    fetch_count,    \* history: token fetches answered with a token so far
    issued,         \* history: when the cached token was built, and its expires_in
    observed,       \* the last reading of OAuth2Token.is_expired by a caller
    fetch_failed,   \* history: the last token fetch that ended failed
    http_client,    \* CobranSaaSClient._client
    clients_made,   \* history: httpx.AsyncClient objects created so far
    closed,         \* the httpx.AsyncClient objects whose aclose() was called
    client,         \* per task: the local variable client of its _request frame
    pc,             \* per task: where it is suspended or running
    op,             \* per task: the top-level operation it is executing
    wake,           \* per task: when its asyncio.sleep is due
    retry_count,    \* per task: retry_count of the innermost _request frame
    stack,          \* per task: the outer _request frames awaiting the innermost
    tok,            \* per task: the token its _get_token returned
    exc,            \* per task: the error its top-level call raised
    hist,           \* per task: history of the current call of _request
    server,         \* the collection endpoint: its pages
    params,         \* per task: get_paginated's params
    max_pages,      \* per task: get_paginated's max_pages
    page_count,     \* per task: get_paginated's page_count
    all_results,    \* per task: get_paginated's all_results
    pg_requests,    \* per task: history: calls of _request made by get_paginated
    page_result,    \* per task: what get_page returned
    args,           \* per task: the continuable argument passed to get_page
    given,          \* per task: the params argument as the caller passed it
    reqs            \* per task: history: the params of each call of _request
                    \* made by get_paginated

rlVars == <<max_requests, window_seconds, timestamps, rate_lock, admitted,
           dispatched, acq, burst>>
tkVars == <<token, token_lock, fetch_count, issued, observed, fetch_failed>>
httpVars == <<http_client, clients_made, closed, client>>
rqVars == <<retry_count, stack, tok, exc, hist>>
envVars == <<calls, faults>>
pgVars == <<server, params, max_pages, page_count, all_results, pg_requests,
           page_result, args, given, reqs>>

vars == <<now, running, calls, faults, max_requests, window_seconds, timestamps,
          rate_lock, admitted, dispatched, acq, burst, token, token_lock, fetch_count,
          issued, observed, fetch_failed, http_client, clients_made, closed, client, pc, op, wake,
          retry_count, stack, tok, exc, hist, server, params, max_pages,
          page_count, all_results, pg_requests, page_result, args, given, reqs>>

\* ------------------------------------------------------------- asyncio.Lock
FreeLock == [locked |-> FALSE, waiters |-> <<>>]

\* Lock.acquire succeeds at once only when unlocked and nobody is queued.
LockIsFree(l) == ~l.locked /\ l.waiters = <<>>

\* Lock.release woke the first waiter, which has not run yet.
LockReady(l) == ~l.locked /\ l.waiters # <<>>

LockTake(l) == [l EXCEPT !.locked = TRUE]

LockEnqueue(l, t) == [l EXCEPT !.waiters = Append(@, t)]

LockWake(l) == [locked |-> TRUE, waiters |-> Tail(l.waiters)]

\* faulty variant of LockRelease: the lock stays held
LockReleaseKept(l) == l

\* Lock.release: unlock; the first waiter, if any, becomes ready
LockRelease(l) == [l EXCEPT !.locked = FALSE]

RECURSIVE Without(_, _)
\* self._waiters.remove(fut): the queue q without task t
Without(q, t) ==
    IF q = <<>> THEN <<>>
    ELSE IF Head(q) = t THEN Tail(q) ELSE <<Head(q)>> \o Without(Tail(q), t)
\* faulty variant of LockCancelled: a cancelled holder keeps the lock
LockCancelledLeak(l, t, holder) ==
    IF holder THEN l ELSE [l EXCEPT !.waiters = Without(@, t)]

\* The lock after CancelledError is thrown into task t: a holder leaves its
\* async with block, which releases the lock; a waiter is removed from the
\* queue, and when the lock is free the first remaining waiter is the one woken.
LockCancelled(l, t, holder) ==
    IF holder THEN LockRelease(l) ELSE [l EXCEPT !.waiters = Without(@, t)]

\* ------------------------------------------------------------- RateLimiter
RECURSIVE PurgeStrict(_, _, _)
\* faulty variant of Purge: a timestamp exactly window_seconds old is kept
PurgeStrict(ts, t, w) ==
    IF ts # <<>> /\ t - Head(ts) > w THEN PurgeStrict(Tail(ts), t, w) ELSE ts

RECURSIVE Purge(_, _, _)
\* while self._timestamps and now - self._timestamps[0] >= self.window_seconds
Purge(ts, t, w) ==
    IF ts # <<>> /\ t - Head(ts) >= w THEN Purge(Tail(ts), t, w) ELSE ts
\* faulty variant of AtCapacity: the comparison off by one
AtCapacityOffByOne(ts, m) == Len(ts) > m

AtCapacity(ts, m) == Len(ts) >= m

\* faulty variant of WaitTime: the wait ends a second early
WaitTimeShort(ts, t, w) == w - (t - Head(ts)) - 1

\* wait_time = self.window_seconds - (now - oldest)
WaitTime(ts, t, w) == w - (t - Head(ts))

PopLeft(ts) == IF ts # <<>> THEN Tail(ts) ELSE ts

RECURSIVE InWindow(_, _, _)
\* the admission instants of s that lie in the trailing window (t - w, t]
InWindow(s, t, w) ==
    IF s = <<>> THEN <<>>
    ELSE IF t - Head(s) >= w THEN InWindow(Tail(s), t, w)
    ELSE <<Head(s)>> \o InWindow(Tail(s), t, w)

NoReady == ~LockReady(rate_lock) /\ ~LockReady(token_lock)

\* history of one call of acquire: its ordinal among the calls issued; how long
\* after the first admission it was issued (-1: a window or more after); whether
\* it was suspended; how long a sleep it asked for (-1: none); the time elapsed
\* since it was issued, up to its admission; whether it has been admitted
NoAcq ==
    [k |-> 0, since_first |-> -1, suspended |-> FALSE, wait |-> -1,
     elapsed |-> 0, admitted |-> FALSE]

\* history of the calls: how many were issued (counted up to two more than the
\* window admits) and the instant of the first admission (-1: none yet,
\* -2: a window or more ago)
NoBurst == [first |-> -1, issued |-> 0]

\* first = -3: the history of the calls is not kept
NoHistory == [first |-> -3, issued |-> 0]

\* the history of a call issued at t as the n-th, under window w
IssuedAcq(b, n, t, w, free) ==
    IF b = NoHistory THEN NoAcq ELSE
    [NoAcq EXCEPT !.k = n,
                  !.since_first = IF b.first = -1 THEN 0
                                  ELSE IF b.first >= 0 /\ t - b.first < w
                                       THEN t - b.first ELSE -1,
                  !.suspended = ~free]

\* the call goes to sleep for d seconds
SleepingAcq(a, d) ==
    IF a.k >= 1 THEN [a EXCEPT !.suspended = TRUE, !.wait = a.elapsed + d] ELSE a

\* the instant of the first admission, once there is one
FirstAdmission(b, t) == IF b.first = -1 THEN [b EXCEPT !.first = t] ELSE b

\* d seconds pass for the calls of acquire that are suspended
AgeAcq(a, pcs, d) ==
    [t \in DOMAIN a |->
        IF pcs[t] \in {"rl_wait", "rl_sleep"} /\ a[t].k >= 1
        THEN [a[t] EXCEPT !.elapsed = @ + d] ELSE a[t]]

\* at instant t the first admission is a window or more ago, or not
AgeBurst(b, t, w) ==
    IF b.first >= 0 /\ t - b.first >= w THEN [b EXCEPT !.first = -2] ELSE b

\* ------------------------------------------------------------- OAuth2Token
NoToken == [id |-> 0, expires_at |-> 0]

\* faulty variant of ExpiresAt: the 60 s buffer is not subtracted
ExpiresAtNoBuffer(t, expires_in) == t + expires_in

\* self.expires_at = time.time() + expires_in - 60
ExpiresAt(t, expires_in) == t + expires_in - ExpiryBuffer

NewToken(n, t, expires_in) == [id |-> n, expires_at |-> ExpiresAt(t, expires_in)]

\* return time.time() >= self.expires_at
IsExpired(tk, t) == t >= tk.expires_at

\* faulty variant of NeedsFetch: the expiry of the cached token is not looked at
NeedsFetchNoneOnly(tk, t) == tk = NoToken

\* if self._token is None or self._token.is_expired
NeedsFetch(tk, t) == tk = NoToken \/ IsExpired(tk, t)

NoIssue == [at |-> 0, lifetime |-> 0]

\* a reading of is_expired: when it was made, what it returned, and when and
\* with what expires_in the token read had been built
NoReading == [valid |-> FALSE, at |-> 0, value |-> FALSE, issued |-> NoIssue]

\* self._token.is_expired as line 96 reads it (not read when _token is None)
ReadIsExpired(tk, t, rd, iss) ==
    IF tk = NoToken THEN rd
    ELSE [valid |-> TRUE, at |-> t, value |-> IsExpired(tk, t), issued |-> iss]

\* ------------------------------------------------------------- _get_client
NoClient == [id |-> 0, is_closed |-> FALSE]

\* faulty variant of NeedsClient: a client is created on every call
NeedsClientAlways(c) == TRUE

\* if self._client is None or self._client.is_closed
NeedsClient(c) == c = NoClient \/ c.is_closed

\* httpx.AsyncClient(...): the n-th client this process creates
NewClient(n) == [id |-> n, is_closed |-> FALSE]

\* _get_client: create the client when there is none that is open
GetClient ==
    /\ IF NeedsClient(http_client)
       THEN /\ http_client' = NewClient(clients_made + 1)
            /\ clients_made' = clients_made + 1
       ELSE UNCHANGED <<http_client, clients_made>>
    /\ UNCHANGED closed

\* the lifetimes the token endpoint advertises: the default, one second more
\* than the buffer, and the buffer itself
Lifetimes == {DefaultExpiresIn, ExpiryBuffer + 1, ExpiryBuffer}
\* faulty variant of MayReauth: a second re-authentication allowed
MayReauthTwice(rc) == rc < 2

\* ---------------------------------------------------------------- _request
\* if response.status_code == 401 and retry_count < 1
MayReauth(rc) == rc < 1

\* if retry_count < self.settings.max_retries
MayRetry(rc) == rc < max_retries

\* await asyncio.sleep(2**retry_count)
Backoff(rc) == 2 ^ rc

Frame(rc, at) == [retry_count |-> rc, at |-> at]
\* faulty variant of Catches: the handler takes every httpx error
CatchesAnyError(f, e) == f.at = "try" /\ f.retry_count < max_retries

\* Which handler of the frame awaiting at f.at takes error e: the recursive
\* call of line 149 is inside the try block, the one of line 161 inside the
\* except block, where no handler of this try statement applies any more.
Catches(f, e) == f.at = "try" /\ e = "RequestError" /\ MayRetry(f.retry_count)

RECURSIVE Unwind(_, _)
\* Propagate error e up the frames stk (innermost last) to the frame that
\* retries, or out of the outermost frame.
Unwind(stk, e) ==
    IF stk = <<>> THEN [kind |-> "failed", retry_count |-> 0, stack |-> <<>>]
    ELSE LET f == stk[Len(stk)]
             rest == SubSeq(stk, 1, Len(stk) - 1)
         IN IF Catches(f, e)
            THEN [kind |-> "backoff", retry_count |-> f.retry_count, stack |-> rest]
            ELSE Unwind(rest, e)

FreshHist ==
    [attempts |-> 0,        \* HTTPS calls to the API
     n401 |-> 0,            \* 401 answers received
     invalidations |-> 0,   \* self._token = None executed
     reauth_retries |-> 0,  \* retries made after a 401
     failures |-> 0,        \* transport failures of API calls
     backoff_retries |-> 0, \* retries made after a backoff sleep
     fetches |-> 0,         \* token fetches started
     last_k |-> -1,         \* index of the transport failure behind the last sleep
     last_d |-> 0,          \* duration of the last backoff sleep
     fatal_at |-> 0,        \* attempts when a non-2xx other than a first 401 came
     fetch_failed_at |-> -1, \* attempts when a token fetch failed
     saw_none |-> FALSE,    \* no Token was cached when the call began
     trail |-> <<"none", "none", "none">>, \* the last three steps of the pipeline
     auth |-> <<"none", 0>>, \* the Authorization header of the last attempt
     client0 |-> NoClient,  \* self._client when the call began
     raised |-> "none",     \* the error that left the outermost _request frame
     tok401 |-> NoToken,    \* the token of the attempt whose 401 was re-authenticated
     fc401 |-> 0]           \* token fetches answered before that invalidation

\* the call's history after the pipeline step ev: "rate" (acquire returned),
\* "token" (_get_token returned) or "send" (the HTTPS call was issued)
Trail(h, ev) == [h EXCEPT !.trail = <<@[2], @[3], ev>>]

\* f"{self.token_type} {self.access_token}", the endpoint advertising Bearer
AuthorizationHeader(tk) == <<"Bearer", tk.id>>

\* the history of task t's call when RateLimiter.acquire or _get_token returns
\* inside _request
AfterStep(t, ev) ==
    IF op[t] \in {"acquire", "get_token"} THEN hist
    ELSE [hist EXCEPT ![t] = Trail(@, ev)]
\* faulty variant of AfterRatePc: _get_token is not awaited
AfterRatePcNoToken(t) == IF op[t] = "acquire" THEN "done" ELSE "send"

\* where a task goes when RateLimiter.acquire returns
AfterRatePc(t) == IF op[t] = "acquire" THEN "done" ELSE "tk_acquire"

AfterRateRunning(t) == IF op[t] = "acquire" THEN {} ELSE {t}

\* where a task goes when _get_token returns
AfterTokenPc(t) == IF op[t] = "get_token" THEN "done" ELSE "send"

AfterTokenRunning(t) == IF op[t] = "get_token" THEN {} ELSE {t}

\* ------------------------------------------------------ RateLimiter.acquire
StartAcquire(t) ==
    /\ running = {}
    /\ pc[t] \in {"idle", "done"}
    /\ calls > 0
    /\ calls' = calls - 1
    /\ op' = [op EXCEPT ![t] = "acquire"]
    /\ pc' = [pc EXCEPT ![t] = "rl_acquire"]
    /\ running' = {t}
    /\ UNCHANGED <<now, faults, rlVars, tkVars, wake, rqVars>>
    /\ UNCHANGED <<httpVars, pgVars>>

\* async with self._lock
RlEnter(t) ==
    /\ running = {t}
    /\ pc[t] = "rl_acquire"
    /\ IF LockIsFree(rate_lock)
       THEN /\ rate_lock' = LockTake(rate_lock)
            /\ pc' = [pc EXCEPT ![t] = "rl_body"]
            /\ UNCHANGED running
       ELSE /\ rate_lock' = LockEnqueue(rate_lock, t)
            /\ pc' = [pc EXCEPT ![t] = "rl_wait"]
            /\ running' = {}
    /\ acq' = [acq EXCEPT ![t] = IssuedAcq(burst, burst.issued + 1, now,
                                          window_seconds, LockIsFree(rate_lock))]
    /\ burst' = IF burst = NoHistory \/ burst.issued >= max_requests + 2 THEN burst
                 ELSE [burst EXCEPT !.issued = @ + 1]
    /\ UNCHANGED <<now, envVars, max_requests, window_seconds, timestamps,
                   admitted, dispatched, tkVars, op, wake, rqVars>>
    /\ UNCHANGED <<httpVars, pgVars>>

RlWake(t) ==
    /\ running = {}
    /\ pc[t] = "rl_wait"
    /\ LockReady(rate_lock)
    /\ Head(rate_lock.waiters) = t
    /\ rate_lock' = LockWake(rate_lock)
    /\ pc' = [pc EXCEPT ![t] = "rl_body"]
    /\ running' = {t}
    /\ UNCHANGED <<now, envVars, max_requests, window_seconds, timestamps,
                   admitted, dispatched, acq, burst, tkVars, op, wake, rqVars>>
    /\ UNCHANGED <<httpVars, pgVars>>

\* the body of acquire up to the sleep, or to the end when there is no sleep
RlBody(t) ==
    /\ running = {t}
    /\ pc[t] = "rl_body"
    /\ LET ts == Purge(timestamps, now, window_seconds) IN
       IF AtCapacity(ts, max_requests) /\ WaitTime(ts, now, window_seconds) > 0
       THEN /\ timestamps' = ts
            /\ wake' = [wake EXCEPT ![t] = now + WaitTime(ts, now, window_seconds)]
            /\ pc' = [pc EXCEPT ![t] = "rl_sleep"]
            /\ running' = {}
            /\ acq' = [acq EXCEPT ![t] =
                         SleepingAcq(@, WaitTime(ts, now, window_seconds))]
            /\ UNCHANGED <<rate_lock, admitted, burst, hist>>
       ELSE /\ timestamps' = Append(ts, now)
            /\ admitted' = InWindow(Append(admitted, now), now, window_seconds)
            /\ rate_lock' = LockRelease(rate_lock)
            /\ pc' = [pc EXCEPT ![t] = AfterRatePc(t)]
            /\ running' = AfterRateRunning(t)
            /\ acq' = [acq EXCEPT ![t].admitted = (acq[t].k >= 1)]
            /\ burst' = FirstAdmission(burst, now)
            /\ hist' = AfterStep(t, "rate")
            /\ UNCHANGED wake
    /\ UNCHANGED <<now, envVars, max_requests, window_seconds, dispatched, tkVars,
                   op, retry_count, stack, tok, exc>>
    /\ UNCHANGED <<httpVars, pgVars>>

\* asyncio.sleep(wait_time) is over: drop the oldest timestamp, record this one
RlSleepDone(t) ==
    /\ running = {}
    /\ NoReady
    /\ pc[t] = "rl_sleep"
    /\ now >= wake[t]
    /\ timestamps' = Append(PopLeft(timestamps), now)
    /\ admitted' = InWindow(Append(admitted, now), now, window_seconds)
    /\ rate_lock' = LockRelease(rate_lock)
    /\ pc' = [pc EXCEPT ![t] = AfterRatePc(t)]
    /\ running' = AfterRateRunning(t)
    /\ wake' = [wake EXCEPT ![t] = 0]
    /\ acq' = [acq EXCEPT ![t].admitted = (acq[t].k >= 1)]
    /\ burst' = FirstAdmission(burst, now)
    /\ hist' = AfterStep(t, "rate")
    /\ UNCHANGED <<now, envVars, max_requests, window_seconds, dispatched, tkVars,
                   op, retry_count, stack, tok, exc>>
    /\ UNCHANGED <<httpVars, pgVars>>

\* a second passes while no task is running, up to the horizon
TickTo(horizon) ==
    /\ running = {}
    /\ NoReady
    /\ now < horizon
    /\ now' = now + 1
    /\ admitted' = InWindow(admitted, now + 1, window_seconds)
    /\ dispatched' = InWindow(dispatched, now + 1, window_seconds)
    /\ acq' = AgeAcq(acq, pc, 1)
    /\ burst' = AgeBurst(burst, now + 1, window_seconds)
    /\ UNCHANGED <<running, envVars, max_requests, window_seconds, timestamps,
                   rate_lock, tkVars, pc, op, wake, rqVars>>
    /\ UNCHANGED <<httpVars, pgVars>>

Tick == TickTo(MaxTime)

\* the instants around the expiry of a token built at iss.at with iss.lifetime:
\* a second before, at and a second after the buffered expiry, and the same
\* around the advertised one
NearExpiry(iss) ==
    {iss.at + iss.lifetime - ExpiryBuffer + d : d \in -1..1}
        \cup {iss.at + iss.lifetime + d : d \in -1..1}

\* time passes, while no task is running, up to an instant near the expiry of
\* the cached token
ElapseNear ==
    /\ running = {}
    /\ NoReady
    /\ token # NoToken
    /\ \E t \in NearExpiry(issued) :
          /\ t > now
          /\ now' = t
          /\ admitted' = InWindow(admitted, t, window_seconds)
          /\ dispatched' = InWindow(dispatched, t, window_seconds)
          /\ acq' = AgeAcq(acq, pc, t - now)
          /\ burst' = AgeBurst(burst, t, window_seconds)
    /\ UNCHANGED <<running, envVars, max_requests, window_seconds, timestamps,
                   rate_lock, tkVars, pc, op, wake, rqVars>>
    /\ UNCHANGED <<httpVars, pgVars>>

\* task.cancel() on a task suspended in acquire (waiting for the lock or in
\* its sleep) or in _get_token (waiting for the lock or for the token
\* endpoint): CancelledError passes every handler and ends the task's call.
\* The timer of a cancelled sleep is left in wake.
Cancel(t) ==
    /\ running = {}
    /\ pc[t] \in {"rl_wait", "rl_sleep", "tk_wait", "fetching"}
    /\ rate_lock' = IF pc[t] \in {"rl_wait", "rl_sleep"}
                     THEN LockCancelled(rate_lock, t, pc[t] = "rl_sleep")
                     ELSE rate_lock
    /\ token_lock' = IF pc[t] \in {"tk_wait", "fetching"}
                      THEN LockCancelled(token_lock, t, pc[t] = "fetching")
                      ELSE token_lock
    /\ pc' = [pc EXCEPT ![t] = "cancelled"]
    /\ exc' = [exc EXCEPT ![t] = "CancelledError"]
    /\ stack' = [stack EXCEPT ![t] = <<>>]
    /\ UNCHANGED <<now, running, envVars, max_requests, window_seconds, timestamps,
                   admitted, dispatched, acq, burst, token, fetch_count, issued,
                   observed, fetch_failed,
                   op, wake, retry_count, tok, hist>>
    /\ UNCHANGED <<httpVars, pgVars>>

\* --------------------------------------------------------------- _get_token
\* a caller awaiting self._get_token() on its own
StartGetToken(t) ==
    /\ running = {}
    /\ pc[t] = "idle"
    /\ calls > 0
    /\ calls' = calls - 1
    /\ op' = [op EXCEPT ![t] = "get_token"]
    /\ pc' = [pc EXCEPT ![t] = "tk_acquire"]
    /\ hist' = [hist EXCEPT ![t] = [FreshHist EXCEPT !.saw_none = (token = NoToken)]]
    /\ running' = {t}
    /\ UNCHANGED <<now, faults, rlVars, tkVars, wake, retry_count, stack, tok, exc>>
    /\ UNCHANGED <<httpVars, pgVars>>

\* client = await self._get_client() for a caller inside _request, then
\* async with self._token_lock
TkEnter(t) ==
    /\ running = {t}
    /\ pc[t] = "tk_acquire"
    /\ IF LockIsFree(token_lock)
       THEN /\ token_lock' = LockTake(token_lock)
            /\ pc' = [pc EXCEPT ![t] = "tk_check"]
            /\ UNCHANGED running
       ELSE /\ token_lock' = LockEnqueue(token_lock, t)
            /\ pc' = [pc EXCEPT ![t] = "tk_wait"]
            /\ running' = {}
    /\ IF op[t] = "get_token"
       THEN UNCHANGED httpVars
       ELSE /\ GetClient
            /\ client' = [client EXCEPT ![t] = http_client'.id]
    /\ UNCHANGED <<now, envVars, rlVars, token, fetch_count, issued, observed, fetch_failed,
                   op, wake, rqVars>>
    /\ UNCHANGED pgVars

TkWake(t) ==
    /\ running = {}
    /\ pc[t] = "tk_wait"
    /\ LockReady(token_lock)
    /\ Head(token_lock.waiters) = t
    /\ token_lock' = LockWake(token_lock)
    /\ pc' = [pc EXCEPT ![t] = "tk_check"]
    /\ running' = {t}
    /\ UNCHANGED <<now, envVars, rlVars, token, fetch_count, issued, observed, fetch_failed,
                   op, wake, rqVars>>
    /\ UNCHANGED <<httpVars, pgVars>>

\* lines 96-98 with the lock held: return the cached token or start a fetch
\* (_fetch_token: _get_client, then the POST to the token endpoint)
TkCheck(t) ==
    /\ running = {t}
    /\ pc[t] = "tk_check"
    /\ IF NeedsFetch(token, now)
       THEN /\ pc' = [pc EXCEPT ![t] = "fetching"]
            /\ hist' = [hist EXCEPT ![t].fetches = @ + 1]
            /\ running' = {}
            /\ GetClient
            /\ UNCHANGED <<client, token_lock, tok>>
       ELSE /\ tok' = [tok EXCEPT ![t] = token]
            /\ token_lock' = LockRelease(token_lock)
            /\ pc' = [pc EXCEPT ![t] = AfterTokenPc(t)]
            /\ running' = AfterTokenRunning(t)
            /\ hist' = AfterStep(t, "token")
            /\ UNCHANGED httpVars
    /\ observed' = ReadIsExpired(token, now, observed, issued)
    /\ UNCHANGED <<now, envVars, rlVars, token, fetch_count, issued, fetch_failed,
                   op, wake, retry_count, stack, exc>>
    /\ UNCHANGED pgVars

\* the token endpoint answers 2xx with expires_in = lifetime
FetchOk(t, lifetime) ==
    /\ running = {}
    /\ NoReady
    /\ pc[t] = "fetching"
    /\ IF lifetime = DefaultExpiresIn THEN UNCHANGED faults
       ELSE faults > 0 /\ faults' = faults - 1
    /\ token' = NewToken(fetch_count + 1, now, lifetime)
    /\ issued' = [at |-> now, lifetime |-> lifetime]
    /\ fetch_failed' = FALSE
    /\ fetch_count' = fetch_count + 1
    /\ tok' = [tok EXCEPT ![t] = token']
    /\ token_lock' = LockRelease(token_lock)
    /\ pc' = [pc EXCEPT ![t] = AfterTokenPc(t)]
    /\ running' = AfterTokenRunning(t)
    /\ hist' = AfterStep(t, "token")
    /\ UNCHANGED <<now, calls, rlVars, observed, op, wake, retry_count, stack,
                   exc>>
    /\ UNCHANGED <<httpVars, pgVars>>

\* faulty variant of Propagate: get_paginated returns what it accumulated
PropagateSwallowed(o, e) ==
    IF o = "get_paginated" THEN [pc |-> "done", exc |-> "none"]
    ELSE [pc |-> "failed", exc |-> e]

\* get, post, get_raw, get_page and get_paginated await _request outside any
\* try statement: the error e that leaves _request leaves the call o
Propagate(o, e) == [pc |-> "failed", exc |-> e]

\* Error e leaves the frames stk of task t; h is the call's history so far.
Raise(t, stk, e, h) ==
    LET u == Unwind(stk, e) IN
    /\ running' = {}
    /\ IF u.kind = "backoff"
       THEN /\ pc' = [pc EXCEPT ![t] = "backoff"]
            /\ retry_count' = [retry_count EXCEPT ![t] = u.retry_count]
            /\ stack' = [stack EXCEPT ![t] = u.stack]
            /\ wake' = [wake EXCEPT ![t] = now + Backoff(u.retry_count)]
            /\ hist' = [hist EXCEPT ![t] = [h EXCEPT !.last_d = Backoff(u.retry_count)]]
            /\ UNCHANGED exc
       ELSE /\ pc' = [pc EXCEPT ![t] = Propagate(op[t], e).pc]
            /\ stack' = [stack EXCEPT ![t] = <<>>]
            /\ exc' = [exc EXCEPT ![t] = Propagate(op[t], e).exc]
            /\ hist' = [hist EXCEPT ![t] = [h EXCEPT !.raised = e]]
            /\ UNCHANGED <<retry_count, wake>>

\* faulty variant of FailedFetch: the cached token is cleared
FailedFetchClears(tk) == NoToken

\* self._token = await self._fetch_token() when the await raises: the
\* assignment is not executed
FailedFetch(tk) == tk

\* the token endpoint is unreachable (RequestError) or answers non-2xx
\* (raise_for_status: HTTPStatusError); the lock is released on the way out
FetchFail(t, e) ==
    /\ running = {}
    /\ NoReady
    /\ pc[t] = "fetching"
    /\ faults > 0
    /\ faults' = faults - 1
    /\ token_lock' = LockRelease(token_lock)
    /\ token' = FailedFetch(token)
    /\ fetch_failed' = TRUE
    /\ Raise(t, stack[t], e,
             [hist[t] EXCEPT !.fetch_failed_at = hist[t].attempts, !.last_k = -1])
    /\ UNCHANGED <<now, calls, rlVars, fetch_count, issued, observed, op, tok>>
    /\ UNCHANGED <<httpVars, pgVars>>

\* ----------------------------------------------------------------- _request
\* get, post and get_raw: one call of _request with retry_count = 0
StartRequest(t) ==
    /\ running = {}
    /\ pc[t] = "idle"
    /\ \A u \in Tasks : u < t => pc[u] # "idle"
    /\ calls > 0
    /\ calls' = calls - 1
    /\ op' = [op EXCEPT ![t] = "request"]
    /\ pc' = [pc EXCEPT ![t] = "rl_acquire"]
    /\ retry_count' = [retry_count EXCEPT ![t] = 0]
    /\ hist' = [hist EXCEPT ![t] = [FreshHist EXCEPT !.saw_none = (token = NoToken),
                                                     !.client0 = http_client]]
    /\ running' = {t}
    /\ UNCHANGED <<now, faults, rlVars, tkVars, wake, stack, tok, exc>>
    /\ UNCHANGED <<httpVars, pgVars>>

\* headers = {"Authorization": token.authorization_header} and
\* await client.request(...)
\* (httpx raises RuntimeError when the client it is asked to send with has
\* been closed; neither except clause of _request takes it)
Send(t) ==
    /\ running = {t}
    /\ pc[t] = "send"
    /\ IF client[t] \in closed
       THEN /\ Raise(t, Append(stack[t], Frame(retry_count[t], "try")),
                     "RuntimeError", hist[t])
            /\ UNCHANGED dispatched
       ELSE /\ pc' = [pc EXCEPT ![t] = "inflight"]
            /\ dispatched' = InWindow(Append(dispatched, now), now, window_seconds)
            /\ hist' = [hist EXCEPT ![t] =
                          [Trail(@, "send") EXCEPT !.attempts = @ + 1,
                                                   !.auth = AuthorizationHeader(tok[t])]]
            /\ running' = {}
            /\ UNCHANGED <<wake, retry_count, stack, exc>>
    /\ UNCHANGED <<now, envVars, max_requests, window_seconds, timestamps,
                   rate_lock, admitted, acq, burst, tkVars, op, tok>>
    /\ UNCHANGED <<httpVars, pgVars>>

\* a 2xx answer: every frame returns the response
RespOk(t) ==
    /\ running = {}
    /\ NoReady
    /\ pc[t] = "inflight"
    /\ op[t] = "request"
    /\ pc' = [pc EXCEPT ![t] = "done"]
    /\ stack' = [stack EXCEPT ![t] = <<>>]
    /\ UNCHANGED <<now, running, envVars, rlVars, tkVars, op, wake, retry_count,
                   tok, exc, hist>>
    /\ UNCHANGED <<httpVars, pgVars>>

\* faulty variant of Invalidated: the cached token is kept
InvalidatedKept(tk) == tk

\* self._token = None  # Force token refresh
Invalidated(tk) == NoToken

\* a 401 answer: re-authenticate and recurse inside the try block, or
\* raise_for_status
Resp401(t) ==
    /\ running = {}
    /\ NoReady
    /\ pc[t] = "inflight"
    /\ faults > 0
    /\ faults' = faults - 1
    /\ IF MayReauth(retry_count[t])
       THEN /\ token' = Invalidated(token)
            /\ issued' = NoIssue
            /\ stack' = [stack EXCEPT ![t] = Append(@, Frame(retry_count[t], "try"))]
            /\ retry_count' = [retry_count EXCEPT ![t] = @ + 1]
            /\ pc' = [pc EXCEPT ![t] = "rl_acquire"]
            /\ hist' = [hist EXCEPT ![t] =
                          [@ EXCEPT !.n401 = @ + 1, !.invalidations = @ + 1,
                                    !.reauth_retries = @ + 1,
                                    !.tok401 = tok[t], !.fc401 = fetch_count]]
            /\ running' = {t}
            /\ UNCHANGED <<wake, exc>>
       ELSE /\ Raise(t, Append(stack[t], Frame(retry_count[t], "try")),
                     "HTTPStatusError",
                     [hist[t] EXCEPT !.n401 = @ + 1,
                                     !.fatal_at = hist[t].attempts])
            /\ UNCHANGED <<token, issued>>
    /\ UNCHANGED <<now, calls, rlVars, token_lock, fetch_count, observed, fetch_failed, op, tok>>
    /\ UNCHANGED <<httpVars, pgVars>>

\* any other non-2xx answer: raise_for_status
RespStatus(t) ==
    /\ running = {}
    /\ NoReady
    /\ pc[t] = "inflight"
    /\ faults > 0
    /\ faults' = faults - 1
    /\ Raise(t, Append(stack[t], Frame(retry_count[t], "try")), "HTTPStatusError",
             [hist[t] EXCEPT !.fatal_at = hist[t].attempts])
    /\ UNCHANGED <<now, calls, rlVars, tkVars, op, tok>>
    /\ UNCHANGED <<httpVars, pgVars>>

\* the transport fails: httpx.RequestError raised inside the try block
RespTransport(t) ==
    /\ running = {}
    /\ NoReady
    /\ pc[t] = "inflight"
    /\ faults > 0
    /\ faults' = faults - 1
    /\ Raise(t, Append(stack[t], Frame(retry_count[t], "try")), "RequestError",
             [hist[t] EXCEPT !.failures = @ + 1, !.last_k = hist[t].failures])
    /\ UNCHANGED <<now, calls, rlVars, tkVars, op, tok>>
    /\ UNCHANGED <<httpVars, pgVars>>

\* asyncio.sleep(2**retry_count) is over: recurse inside the except block
BackoffDone(t) ==
    /\ running = {}
    /\ NoReady
    /\ pc[t] = "backoff"
    /\ now >= wake[t]
    /\ stack' = [stack EXCEPT ![t] = Append(@, Frame(retry_count[t], "except"))]
    /\ retry_count' = [retry_count EXCEPT ![t] = @ + 1]
    /\ pc' = [pc EXCEPT ![t] = "rl_acquire"]
    /\ hist' = [hist EXCEPT ![t].backoff_retries = @ + 1]
    /\ wake' = [wake EXCEPT ![t] = 0]
    /\ running' = {t}
    /\ UNCHANGED <<now, envVars, rlVars, tkVars, op, tok, exc>>
    /\ UNCHANGED <<httpVars, pgVars>>

\* -------------------------------------------------------------------- close
\* close(): if self._client is not None, await self._client.aclose(), which
\* marks the client closed and then closes its connection pool; the await
\* suspends the caller when suspends is TRUE and completes at once otherwise
StartClose(t, suspends) ==
    /\ running = {}
    /\ pc[t] = "idle"
    /\ \A u \in Tasks : u < t => pc[u] # "idle"
    /\ calls > 0
    /\ calls' = calls - 1
    /\ op' = [op EXCEPT ![t] = "close"]
    /\ IF http_client = NoClient
       THEN /\ pc' = [pc EXCEPT ![t] = "done"]
            /\ UNCHANGED <<http_client, closed>>
       ELSE /\ closed' = closed \cup {http_client.id}
            /\ IF suspends
               THEN /\ pc' = [pc EXCEPT ![t] = "closing"]
                    /\ http_client' = [http_client EXCEPT !.is_closed = TRUE]
               ELSE /\ pc' = [pc EXCEPT ![t] = "done"]
                    /\ http_client' = NoClient
    /\ UNCHANGED <<now, running, faults, rlVars, tkVars, clients_made, client,
                   wake, rqVars, pgVars>>

\* aclose() returned: self._client = None
CloseDone(t) ==
    /\ running = {}
    /\ NoReady
    /\ pc[t] = "closing"
    /\ http_client' = NoClient
    /\ pc' = [pc EXCEPT ![t] = "done"]
    /\ UNCHANGED <<now, running, envVars, rlVars, tkVars, clients_made, closed,
                   client, op, wake, rqVars, pgVars>>

\* ------------------------------------------------------------ get_paginated
DefaultMaxPages == 100

\* a response header that may be missing: headers.get(name) is None then
NoHeader == [present |-> FALSE, value |-> 0]

\* the continuation token the server sends with page k; Header(0) is ""
Header(k) == [present |-> TRUE, value |-> k]

\* str.lower() on the values the x-meta-has-next header takes here
Lower(str) == IF str \in {"true", "True", "TRUE"} THEN "true" ELSE str

\* response.headers.get("x-meta-has-next", "false").lower() == "true"
HasNext(h) == Lower(IF h = "absent" THEN "false" ELSE h) = "true"

\* the truth value of response.headers.get("x-meta-continuable")
Truthy(h) == h.present /\ h.value # 0

\* the JSON body of page k: a list of n items, or one object (held in obj[1])
ListBody(k, n) == [is_list |-> TRUE, items |-> [i \in 1..n |-> <<k, i>>], obj |-> <<>>]

ObjectBody(k) == [is_list |-> FALSE, items |-> <<>>, obj |-> << <<k, 0>> >>]

Page(body, has_next, continuable) ==
    [body |-> body, has_next |-> has_next, continuable |-> continuable]

\* the pages of 10, 10 and 5 items
Pages10105 ==
    [endless |-> FALSE,
     pages |-> << Page(ListBody(1, 10), "true", Header(1)),
                  Page(ListBody(2, 10), "true", Header(2)),
                  Page(ListBody(3, 5), "false", NoHeader) >>]

\* a server that reports has-next=true with a token on every page
EndlessPages == [endless |-> TRUE, pages |-> <<>>]

\* an object body, a capitalised header, and a last page without has-next
MixedPages ==
    [endless |-> FALSE,
     pages |-> << Page(ObjectBody(1), "True", Header(1)),
                  Page(ListBody(2, 2), "absent", Header(2)) >>]

\* has-next=true without a continuation token
TokenlessPages ==
    [endless |-> FALSE,
     pages |-> << Page(ListBody(1, 2), "true", NoHeader),
                  Page(ListBody(2, 1), "false", NoHeader) >>]

\* has-next=true with an empty continuation token
EmptyTokenPages ==
    [endless |-> FALSE,
     pages |-> << Page(ListBody(1, 1), "TRUE", Header(0)),
                  Page(ListBody(2, 1), "false", NoHeader) >>]

Servers == {Pages10105, EndlessPages, MixedPages, TokenlessPages, EmptyTokenPages}

\* page k of the collection as the server serves it
PageOf(srv, k) ==
    IF k <= Len(srv.pages) THEN srv.pages[k]
    ELSE IF srv.endless THEN Page(ListBody(k, 1), "true", Header(k))
    ELSE Page(ListBody(k, 0), "false", NoHeader)

\* the page the server answers a GET carrying params prm with: the first page,
\* or the one after the page whose continuation token is echoed back
ServerPage(srv, prm) ==
    PageOf(srv, IF Truthy(prm.continuable) THEN prm.continuable.value + 1 ELSE 1)
\* faulty variant of Accumulate: the page replaces what was accumulated
AccumulateOverwrite(results, body) ==
    IF body.is_list THEN body.items ELSE <<body.obj[1]>>

\* all_results.extend(data) for a list, all_results.append(data) otherwise
Accumulate(results, body) ==
    IF body.is_list THEN results \o body.items ELSE Append(results, body.obj[1])
\* faulty variant of WithinCeiling: one page too many
WithinCeilingOffByOne(n, ceiling) == n <= ceiling

\* while page_count < max_pages
WithinCeiling(n, ceiling) == n < ceiling

\* faulty variant of Stops: the continuation token is not looked at
StopsOnHasNextOnly(page) == ~HasNext(page.has_next)

\* if not has_next or not continuable: break
Stops(page) == ~HasNext(page.has_next) \/ ~Truthy(page.continuable)

\* faulty variant of NextParams: the token of the response is not merged
NextParamsKept(prm, page) == prm

\* params["continuable"] = continuable
NextParams(prm, page) == [prm EXCEPT !.continuable = page.continuable]

\* size 0: no "size" key
NoParams == [mode |-> "none", size |-> 0, continuable |-> NoHeader]

\* params: dict | None = None, no mapping passed
NoneGiven == [passed |-> FALSE, map |-> NoParams]

\* the caller passes a mapping holding m
Given(m) == [passed |-> TRUE, map |-> m]

\* if params is None: params = {}; otherwise params is the caller's mapping
Working(g) == g.map

\* get_paginated(endpoint, g, mode, ceiling) up to its first await
StartGetPaginated(t, g, mode, ceiling) ==
    /\ running = {}
    /\ pc[t] = "idle"
    /\ \A u \in Tasks : u < t => pc[u] # "idle"
    /\ calls > 0
    /\ calls' = calls - 1
    /\ op' = [op EXCEPT ![t] = "get_paginated"]
    /\ given' = [given EXCEPT ![t] = g]
    /\ params' = [params EXCEPT ![t] = [Working(g) EXCEPT !.mode = mode]]
    /\ max_pages' = [max_pages EXCEPT ![t] = ceiling]
    /\ all_results' = [all_results EXCEPT ![t] = <<>>]
    /\ page_count' = [page_count EXCEPT ![t] = 0]
    /\ IF WithinCeiling(0, ceiling)
       THEN /\ pc' = [pc EXCEPT ![t] = "rl_acquire"]
            /\ retry_count' = [retry_count EXCEPT ![t] = 0]
            /\ hist' = [hist EXCEPT ![t] =
                          [FreshHist EXCEPT !.saw_none = (token = NoToken)]]
            /\ pg_requests' = [pg_requests EXCEPT ![t] = 1]
            /\ reqs' = [reqs EXCEPT ![t] = <<params'[t]>>]
            /\ running' = {t}
       ELSE /\ pc' = [pc EXCEPT ![t] = "done"]
            /\ pg_requests' = [pg_requests EXCEPT ![t] = 0]
            /\ reqs' = [reqs EXCEPT ![t] = <<>>]
            /\ UNCHANGED <<running, retry_count, hist>>
    /\ UNCHANGED <<now, faults, rlVars, tkVars, httpVars, wake, stack, tok, exc,
                   server, page_result, args>>

\* a 2xx answer to a request of get_paginated: the rest of the loop body and
\* the loop test, up to the next await or the return
RespPage(t) ==
    /\ running = {}
    /\ NoReady
    /\ pc[t] = "inflight"
    /\ op[t] = "get_paginated"
    /\ LET page == ServerPage(server, params[t])
           again == ~Stops(page) /\ WithinCeiling(page_count[t] + 1, max_pages[t])
       IN /\ all_results' = [all_results EXCEPT ![t] = Accumulate(@, page.body)]
          /\ IF Stops(page)
             THEN UNCHANGED <<params, page_count>>
             ELSE /\ params' = [params EXCEPT ![t] = NextParams(@, page)]
                  /\ page_count' = [page_count EXCEPT ![t] = @ + 1]
          /\ IF again
             THEN /\ pc' = [pc EXCEPT ![t] = "rl_acquire"]
                  /\ retry_count' = [retry_count EXCEPT ![t] = 0]
                  /\ hist' = [hist EXCEPT ![t] =
                                [FreshHist EXCEPT !.saw_none = (token = NoToken)]]
                  /\ pg_requests' = [pg_requests EXCEPT ![t] = @ + 1]
                  /\ reqs' = [reqs EXCEPT ![t] = Append(@, params'[t])]
                  /\ running' = {t}
             ELSE /\ pc' = [pc EXCEPT ![t] = "done"]
                  /\ UNCHANGED <<running, retry_count, hist, pg_requests, reqs>>
    /\ stack' = [stack EXCEPT ![t] = <<>>]
    /\ UNCHANGED <<now, envVars, rlVars, tkVars, httpVars, op, wake, tok, exc,
                   server, max_pages, page_result, args, given>>

\* ----------------------------------------------------------------- get_page
DefaultPageSize == 10

\* the x-meta-current-size header: the number of records in the page
CurrentSize(p) == IF p.body.is_list THEN Len(p.body.items) ELSE 1

\* get_page has not returned
NoPage ==
    [returned |-> FALSE, data |-> ListBody(0, 0), has_next |-> FALSE,
     continuable |-> NoHeader, current_size |-> 0]
\* faulty variant of PageParams: the caller's token is not sent
PageParamsDropToken(prm, size, cont) ==
    [prm EXCEPT !.mode = "CONTINUABLE", !.size = size]

\* params["mode"], params["size"], and params["continuable"] if continuable
PageParams(prm, size, cont) ==
    [prm EXCEPT !.mode = "CONTINUABLE", !.size = size,
                !.continuable = IF Truthy(cont) THEN cont ELSE @]

\* the dictionary get_page returns for the response p
PageResult(p) ==
    [returned |-> TRUE, data |-> p.body, has_next |-> HasNext(p.has_next),
     continuable |-> p.continuable, current_size |-> CurrentSize(p)]

\* get_page(endpoint, g, size, cont) up to its first await
StartGetPage(t, g, size, cont) ==
    /\ running = {}
    /\ pc[t] = "idle"
    /\ \A u \in Tasks : u < t => pc[u] # "idle"
    /\ calls > 0
    /\ calls' = calls - 1
    /\ op' = [op EXCEPT ![t] = "get_page"]
    /\ given' = [given EXCEPT ![t] = g]
    /\ params' = [params EXCEPT ![t] = PageParams(Working(g), size, cont)]
    /\ args' = [args EXCEPT ![t] = cont]
    /\ pc' = [pc EXCEPT ![t] = "rl_acquire"]
    /\ retry_count' = [retry_count EXCEPT ![t] = 0]
    /\ hist' = [hist EXCEPT ![t] = [FreshHist EXCEPT !.saw_none = (token = NoToken)]]
    /\ pg_requests' = [pg_requests EXCEPT ![t] = 1]
    /\ running' = {t}
    /\ UNCHANGED <<now, faults, rlVars, tkVars, httpVars, wake, stack, tok, exc,
                   server, max_pages, page_count, all_results, page_result, reqs>>

\* a 2xx answer to the request of get_page: build the result and return it
RespGetPage(t) ==
    /\ running = {}
    /\ NoReady
    /\ pc[t] = "inflight"
    /\ op[t] = "get_page"
    /\ page_result' = [page_result EXCEPT ![t] = PageResult(ServerPage(server, params[t]))]
    /\ pc' = [pc EXCEPT ![t] = "done"]
    /\ stack' = [stack EXCEPT ![t] = <<>>]
    /\ UNCHANGED <<now, running, envVars, rlVars, tkVars, httpVars, op, wake,
                   retry_count, tok, exc, hist, server, params, max_pages,
                   page_count, all_results, pg_requests, args, given, reqs>>

\* ---------------------------------------------------------- specifications
InitCore ==
    /\ now = 0
    /\ running = {}
    /\ rate_lock = FreeLock
    /\ token_lock = FreeLock
    /\ fetch_count = 0
    /\ pc = [t \in Tasks |-> "idle"]
    /\ op = [t \in Tasks |-> "none"]
    /\ wake = [t \in Tasks |-> 0]
    /\ retry_count = [t \in Tasks |-> 0]
    /\ stack = [t \in Tasks |-> <<>>]
    /\ tok = [t \in Tasks |-> NoToken]
    /\ exc = [t \in Tasks |-> "none"]
    /\ hist = [t \in Tasks |-> FreshHist]
    /\ params = [t \in Tasks |-> NoParams]
    /\ max_pages = [t \in Tasks |-> 0]
    /\ page_count = [t \in Tasks |-> 0]
    /\ all_results = [t \in Tasks |-> <<>>]
    /\ pg_requests = [t \in Tasks |-> 0]
    /\ acq = [t \in Tasks |-> NoAcq]
    /\ issued = NoIssue
    /\ observed = NoReading
    /\ fetch_failed = FALSE
    /\ page_result = [t \in Tasks |-> NoPage]
    /\ args = [t \in Tasks |-> NoHeader]
    /\ client = [t \in Tasks |-> 0]
    /\ dispatched = <<>>
    /\ given = [t \in Tasks |-> NoneGiven]
    /\ reqs = [t \in Tasks |-> <<>>]

\* self._client = None: no httpx.AsyncClient has been created yet
InitTasks ==
    /\ InitCore
    /\ http_client = NoClient
    /\ clients_made = 0
    /\ closed = {}

\* RateLimiter(max_requests, window_seconds) used by concurrent callers
InitRL ==
    /\ InitTasks
    /\ burst = NoHistory
    /\ server = Pages10105
    /\ calls = MaxCalls
    /\ faults = 0
    /\ max_requests \in 1..MaxCfgRequests
    /\ window_seconds \in 1..MaxCfgWindow
    /\ timestamps = <<>>
    /\ admitted = <<>>
    /\ token = NoToken

NextRL ==
    \/ \E t \in Tasks : StartAcquire(t)
    \/ \E t \in Tasks : RlEnter(t)
    \/ \E t \in Tasks : RlWake(t)
    \/ \E t \in Tasks : RlBody(t)
    \/ \E t \in Tasks : RlSleepDone(t)
    \/ Tick

SpecRL == InitRL /\ [][NextRL]_vars

\* RateLimiter(10, window_seconds) with the client's window and one a second
\* longer, empty, receiving a burst of calls from one caller: one more than it
\* admits in one window
InitBurst ==
    /\ InitTasks
    /\ burst = NoBurst
    /\ server = Pages10105
    /\ calls = ClientMaxRequests + 1
    /\ faults = 0
    /\ max_requests = ClientMaxRequests
    /\ window_seconds \in {ClientWindowSeconds, ClientWindowSeconds + 1}
    /\ timestamps = <<>>
    /\ admitted = <<>>
    /\ token = NoToken

\* the burst is followed for some seconds beyond the window
BurstHorizon == ClientWindowSeconds + MaxTime \div 2

NextBurst ==
    \/ \E t \in Tasks : (\A u \in Tasks : t <= u) /\ StartAcquire(t)
    \/ \E t \in Tasks : RlEnter(t)
    \/ \E t \in Tasks : RlBody(t)
    \/ \E t \in Tasks : RlSleepDone(t)
    \/ TickTo(BurstHorizon)

SpecBurst == InitBurst /\ [][NextBurst]_vars

\* the client's token cache used by concurrent callers of _get_token
InitTok ==
    /\ InitTasks
    /\ burst = NoHistory
    /\ server = Pages10105
    /\ calls = MaxCalls
    /\ faults = MaxFaults
    /\ max_requests = ClientMaxRequests
    /\ window_seconds = ClientWindowSeconds
    /\ timestamps = <<>>
    /\ admitted = <<>>
    /\ token = NoToken

NextTok ==
    \/ \E t \in Tasks : StartGetToken(t)
    \/ \E t \in Tasks : TkEnter(t)
    \/ \E t \in Tasks : TkWake(t)
    \/ \E t \in Tasks : TkCheck(t)
    \/ \E t \in Tasks : \E l \in Lifetimes : FetchOk(t, l)
    \/ \E t \in Tasks : \E e \in {"RequestError", "HTTPStatusError"} : FetchFail(t, e)
    \/ Tick

SpecTok == InitTok /\ [][NextTok]_vars

\* the token cache read by successive callers of _get_token while the cached
\* token ages
NextExpiry ==
    \/ \E t \in Tasks : (\A u \in Tasks : u < t => pc[u] # "idle") /\ StartGetToken(t)
    \/ \E t \in Tasks : TkEnter(t)
    \/ \E t \in Tasks : TkCheck(t)
    \/ \E t \in Tasks : \E l \in Lifetimes : FetchOk(t, l)
    \/ Tick
    \/ ElapseNear

SpecExpiry == InitTok /\ [][NextExpiry]_vars

\* a RateLimiter that admits one call per second and the token cache, used by
\* concurrent callers of acquire and of _get_token that may be cancelled
InitCancel ==
    /\ InitTasks
    /\ burst = NoHistory
    /\ server = Pages10105
    /\ calls = NTasks + 1
    /\ faults = 0
    /\ max_requests = 1
    /\ window_seconds = ClientWindowSeconds
    /\ timestamps = <<>>
    /\ admitted = <<>>
    /\ token = NoToken

\* a timer that is due fires before the clock moves on
NoTimerDue == \A t \in Tasks : pc[t] = "rl_sleep" => now < wake[t]

\* the callers are followed for one second more than they need to be admitted
\* one after the other
CancelHorizon == NTasks * ClientWindowSeconds + 1

\* callers arrive while there is time left for all of them to be admitted
InTime == now + NTasks * window_seconds <= CancelHorizon

NextCancel ==
    \/ \E t \in Tasks : InTime /\ StartAcquire(t)
    \/ \E t \in Tasks : StartGetToken(t)
    \/ \E t \in Tasks : RlEnter(t)
    \/ \E t \in Tasks : RlWake(t)
    \/ \E t \in Tasks : RlBody(t)
    \/ \E t \in Tasks : RlSleepDone(t)
    \/ \E t \in Tasks : TkEnter(t)
    \/ \E t \in Tasks : TkWake(t)
    \/ \E t \in Tasks : TkCheck(t)
    \/ \E t \in Tasks : \E l \in Lifetimes : FetchOk(t, l)
    \/ \E t \in Tasks : Cancel(t)
    \/ NoTimerDue /\ TickTo(CancelHorizon)

\* the event loop runs every task that is ready, fires every timer that is due,
\* the clock advances, and the token endpoint answers every fetch
FairCancel ==
    /\ \A t \in Tasks : WF_vars(RlEnter(t)) /\ WF_vars(RlWake(t))
                          /\ WF_vars(RlBody(t)) /\ WF_vars(RlSleepDone(t))
                          /\ WF_vars(TkEnter(t)) /\ WF_vars(TkWake(t))
                          /\ WF_vars(TkCheck(t))
                          /\ WF_vars(FetchOk(t, DefaultExpiresIn))
    /\ WF_vars(NoTimerDue /\ TickTo(CancelHorizon))

SpecCancel == InitCancel /\ [][NextCancel]_vars /\ FairCancel

\* The timestamps of n requests admitted in the second before the model starts.
Earlier(n) == [i \in 1..n |-> 0]

\* the client of get_client(): RateLimiter(10, 1.0), serving one logical
\* request (get, post or get_raw) from its first attempt to its outcome
Init ==
    /\ InitTasks
    /\ burst = NoHistory
    /\ server = Pages10105
    /\ calls = 1
    /\ faults = MaxFaults
    /\ max_requests = ClientMaxRequests
    /\ window_seconds = ClientWindowSeconds
    /\ timestamps \in {Earlier(0), Earlier(ClientMaxRequests - 1)}
    /\ admitted = timestamps
    /\ token = NoToken

Next ==
    \/ \E t \in Tasks : StartRequest(t)
    \/ \E t \in Tasks : RlEnter(t)
    \/ \E t \in Tasks : RlBody(t)
    \/ \E t \in Tasks : RlSleepDone(t)
    \/ \E t \in Tasks : TkEnter(t)
    \/ \E t \in Tasks : TkCheck(t)
    \/ \E t \in Tasks : \E l \in Lifetimes : FetchOk(t, l)
    \/ \E t \in Tasks : \E e \in {"RequestError", "HTTPStatusError"} : FetchFail(t, e)
    \/ \E t \in Tasks : Send(t)
    \/ \E t \in Tasks : RespOk(t)
    \/ \E t \in Tasks : Resp401(t)
    \/ \E t \in Tasks : RespStatus(t)
    \/ \E t \in Tasks : RespTransport(t)
    \/ \E t \in Tasks : BackoffDone(t)
    \/ Tick

Spec == Init /\ [][Next]_vars

\* self._client as a logical request finds it: None, the open client an
\* earlier request created, or that client closed (close() awaiting aclose)
ClientsFound == {NoClient, NewClient(1), [NewClient(1) EXCEPT !.is_closed = TRUE]}

\* the client of get_client() serving one logical request, before or after
\* earlier requests created its httpx.AsyncClient
InitFrame ==
    /\ InitCore
    /\ http_client \in ClientsFound
    /\ clients_made = http_client.id
    /\ closed = IF http_client.is_closed THEN {http_client.id} ELSE {}
    /\ burst = NoHistory
    /\ server = Pages10105
    /\ calls = 1
    /\ faults = MaxFaults
    /\ max_requests = ClientMaxRequests
    /\ window_seconds = ClientWindowSeconds
    /\ timestamps \in {Earlier(0), Earlier(ClientMaxRequests - 1)}
    /\ admitted = timestamps
    /\ token = NoToken

SpecFrame == InitFrame /\ [][Next]_vars

\* the client of get_client() serving one logical request and one call of
\* close(), before or after an earlier request created its httpx.AsyncClient
InitClose ==
    /\ InitCore
    /\ http_client \in {NoClient, NewClient(1)}
    /\ clients_made = http_client.id
    /\ closed = {}
    /\ burst = NoHistory
    /\ server = Pages10105
    /\ calls = 2
    /\ faults = 1
    /\ max_requests = ClientMaxRequests
    /\ window_seconds = ClientWindowSeconds
    /\ timestamps = Earlier(0)
    /\ admitted = timestamps
    /\ token = NoToken

NextClose ==
    \/ \E t \in Tasks : StartRequest(t)
    \/ \E t \in Tasks : \E s \in BOOLEAN : StartClose(t, s)
    \/ \E t \in Tasks : CloseDone(t)
    \/ \E t \in Tasks : RlEnter(t)
    \/ \E t \in Tasks : RlBody(t)
    \/ \E t \in Tasks : TkEnter(t)
    \/ \E t \in Tasks : TkCheck(t)
    \/ \E t \in Tasks : FetchOk(t, DefaultExpiresIn)
    \/ \E t \in Tasks : Send(t)
    \/ \E t \in Tasks : RespOk(t)
    \/ \E t \in Tasks : RespTransport(t)
    \/ \E t \in Tasks : BackoffDone(t)
    \/ Tick

SpecClose == InitClose /\ [][NextClose]_vars

\* the ceilings callers pass to get_paginated
Ceilings == {0, SmallCeiling, DefaultMaxPages}

\* mode: str = "CONTINUABLE"
DefaultMode == "CONTINUABLE"

\* the client of get_client() serving one call of get_paginated against a
\* server that answers every request
InitPag ==
    /\ InitTasks
    /\ burst = NoHistory
    /\ server \in Servers
    /\ calls = 1
    /\ faults = 0
    /\ max_requests = ClientMaxRequests
    /\ window_seconds = ClientWindowSeconds
    /\ timestamps = Earlier(0)
    /\ admitted = timestamps
    /\ token = NoToken

NextPag ==
    \/ \E t \in Tasks : \E c \in Ceilings : StartGetPaginated(t, NoneGiven, DefaultMode, c)
    \/ \E t \in Tasks : RlEnter(t)
    \/ \E t \in Tasks : RlBody(t)
    \/ \E t \in Tasks : RlSleepDone(t)
    \/ \E t \in Tasks : TkEnter(t)
    \/ \E t \in Tasks : TkCheck(t)
    \/ \E t \in Tasks : \E l \in Lifetimes : FetchOk(t, l)
    \/ \E t \in Tasks : Send(t)
    \/ \E t \in Tasks : RespPage(t)
    \/ Tick

SpecPag == InitPag /\ [][NextPag]_vars

\* the sizes and continuation tokens callers pass to get_page: no token, the
\* empty string, and the tokens of the first two pages
Sizes == {1, DefaultPageSize}

Supplied == {NoHeader, Header(0), Header(1), Header(2)}

\* the client of get_client() serving one call of get_page
InitPage ==
    /\ InitTasks
    /\ burst = NoHistory
    /\ server \in Servers
    /\ calls = 1
    /\ faults = 1
    /\ max_requests = ClientMaxRequests
    /\ window_seconds = ClientWindowSeconds
    /\ timestamps = Earlier(0)
    /\ admitted = timestamps
    /\ token = NoToken

NextPage ==
    \/ \E t \in Tasks : \E sz \in Sizes : \E c \in Supplied : StartGetPage(t, NoneGiven, sz, c)
    \/ \E t \in Tasks : RlEnter(t)
    \/ \E t \in Tasks : RlBody(t)
    \/ \E t \in Tasks : TkEnter(t)
    \/ \E t \in Tasks : TkCheck(t)
    \/ \E t \in Tasks : \E l \in Lifetimes : FetchOk(t, l)
    \/ \E t \in Tasks : \E e \in {"RequestError", "HTTPStatusError"} : FetchFail(t, e)
    \/ \E t \in Tasks : Send(t)
    \/ \E t \in Tasks : RespGetPage(t)
    \/ \E t \in Tasks : Resp401(t)
    \/ \E t \in Tasks : RespStatus(t)
    \/ \E t \in Tasks : RespTransport(t)
    \/ \E t \in Tasks : BackoffDone(t)
    \/ Tick

SpecPage == InitPage /\ [][NextPage]_vars

\* the values callers pass for the mode argument of get_paginated: the default
\* and another string
Modes == {DefaultMode, "PAGE"}

\* the client of get_client() serving one call of get_paginated or of get_page,
\* with every argument the signatures accept, against a server that answers
\* every request
InitModes ==
    /\ InitTasks
    /\ burst = NoHistory
    /\ server \in Servers
    /\ calls = 1
    /\ faults = 0
    /\ max_requests = ClientMaxRequests
    /\ window_seconds = ClientWindowSeconds
    /\ timestamps = Earlier(0)
    /\ admitted = timestamps
    /\ token = NoToken

NextModes ==
    \/ \E t \in Tasks : \E m \in Modes : \E c \in {0, SmallCeiling} :
           StartGetPaginated(t, NoneGiven, m, c)
    \/ \E t \in Tasks : \E sz \in Sizes : \E c \in Supplied : StartGetPage(t, NoneGiven, sz, c)
    \/ \E t \in Tasks : RlEnter(t)
    \/ \E t \in Tasks : RlBody(t)
    \/ \E t \in Tasks : TkEnter(t)
    \/ \E t \in Tasks : TkCheck(t)
    \/ \E t \in Tasks : \E l \in Lifetimes : FetchOk(t, l)
    \/ \E t \in Tasks : Send(t)
    \/ \E t \in Tasks : RespPage(t)
    \/ \E t \in Tasks : RespGetPage(t)
    \/ Tick

SpecModes == InitModes /\ [][NextModes]_vars

\* the client of get_client() serving one call of get, get_page or
\* get_paginated against a server and a transport that may fail
InitErr ==
    /\ InitTasks
    /\ burst = NoHistory
    /\ server = Pages10105
    /\ calls = 1
    /\ faults = MaxFaults
    /\ max_requests = ClientMaxRequests
    /\ window_seconds = ClientWindowSeconds
    /\ timestamps = Earlier(0)
    /\ admitted = timestamps
    /\ token = NoToken

NextErr ==
    \/ \E t \in Tasks : StartRequest(t)
    \/ \E t \in Tasks : StartGetPage(t, NoneGiven, DefaultPageSize, NoHeader)
    \/ \E t \in Tasks : StartGetPaginated(t, NoneGiven, DefaultMode, SmallCeiling)
    \/ \E t \in Tasks : RlEnter(t)
    \/ \E t \in Tasks : RlBody(t)
    \/ \E t \in Tasks : TkEnter(t)
    \/ \E t \in Tasks : TkCheck(t)
    \/ \E t \in Tasks : FetchOk(t, DefaultExpiresIn)
    \/ \E t \in Tasks : \E e \in {"RequestError", "HTTPStatusError"} : FetchFail(t, e)
    \/ \E t \in Tasks : Send(t)
    \/ \E t \in Tasks : RespOk(t)
    \/ \E t \in Tasks : RespPage(t)
    \/ \E t \in Tasks : RespGetPage(t)
    \/ \E t \in Tasks : Resp401(t)
    \/ \E t \in Tasks : RespStatus(t)
    \/ \E t \in Tasks : RespTransport(t)
    \/ \E t \in Tasks : BackoffDone(t)
    \/ Tick

SpecErr == InitErr /\ [][NextErr]_vars

\* the client of get_client() serving one logical request of every caller
\* concurrently, the API answering 401 up to once per caller
InitReauth ==
    /\ InitTasks
    /\ burst = NoHistory
    /\ server = Pages10105
    /\ calls = NTasks
    /\ faults = NTasks
    /\ max_requests = ClientMaxRequests
    /\ window_seconds = ClientWindowSeconds
    /\ timestamps = <<>>
    /\ admitted = <<>>
    /\ token = NoToken

NextReauth ==
    \/ \E t \in Tasks : StartRequest(t)
    \/ \E t \in Tasks : RlEnter(t)
    \/ \E t \in Tasks : RlBody(t)
    \/ \E t \in Tasks : TkEnter(t)
    \/ \E t \in Tasks : TkWake(t)
    \/ \E t \in Tasks : TkCheck(t)
    \/ \E t \in Tasks : FetchOk(t, DefaultExpiresIn)
    \/ \E t \in Tasks : Send(t)
    \/ \E t \in Tasks : RespOk(t)
    \/ \E t \in Tasks : Resp401(t)
    \/ TickTo(ClientWindowSeconds)

SpecReauth == InitReauth /\ [][NextReauth]_vars

\* a client whose limiter admits one request per window, serving one logical
\* request of every caller, the token endpoint taking any time to answer; the
\* window starts empty or holding the admission of one earlier request
InitDispatch ==
    /\ InitTasks
    /\ burst = NoHistory
    /\ server = Pages10105
    /\ calls = NTasks
    /\ faults = 0
    /\ max_requests = 1
    /\ window_seconds = ClientWindowSeconds
    /\ timestamps \in {<<>>, Earlier(1)}
    /\ admitted = timestamps
    /\ token = NoToken

NextDispatch ==
    \/ \E t \in Tasks : StartRequest(t)
    \/ \E t \in Tasks : RlEnter(t)
    \/ \E t \in Tasks : RlWake(t)
    \/ \E t \in Tasks : RlBody(t)
    \/ \E t \in Tasks : RlSleepDone(t)
    \/ \E t \in Tasks : TkEnter(t)
    \/ \E t \in Tasks : TkWake(t)
    \/ \E t \in Tasks : TkCheck(t)
    \/ \E t \in Tasks : FetchOk(t, DefaultExpiresIn)
    \/ \E t \in Tasks : Send(t)
    \/ \E t \in Tasks : RespOk(t)
    \/ NoTimerDue /\ TickTo(NTasks * ClientWindowSeconds + 1)

SpecDispatch == InitDispatch /\ [][NextDispatch]_vars

\* the params arguments callers pass: None, an empty mapping, a mapping that
\* holds the continuation token of the first page, and one that holds a size
\* and a mode of its own
GivenSet ==
    {NoneGiven,
     Given(NoParams),
     Given([NoParams EXCEPT !.continuable = Header(1)]),
     Given([NoParams EXCEPT !.size = 1, !.mode = "PAGE"])}

\* the client of get_client() serving one call of get_paginated or of get_page
\* with a params argument, against a server that answers every request
InitParams ==
    /\ InitTasks
    /\ burst = NoHistory
    /\ server \in Servers
    /\ calls = 1
    /\ faults = 0
    /\ max_requests = ClientMaxRequests
    /\ window_seconds = ClientWindowSeconds
    /\ timestamps = Earlier(0)
    /\ admitted = timestamps
    /\ token = NoToken

NextParamsSpec ==
    \/ \E t \in Tasks : \E g \in GivenSet : \E c \in {SmallCeiling, SmallCeiling + 2} :
           StartGetPaginated(t, g, DefaultMode, c)
    \/ \E t \in Tasks : \E g \in GivenSet : \E c \in {NoHeader, Header(2)} :
           StartGetPage(t, g, DefaultPageSize, c)
    \/ \E t \in Tasks : RlEnter(t)
    \/ \E t \in Tasks : RlBody(t)
    \/ \E t \in Tasks : TkEnter(t)
    \/ \E t \in Tasks : TkCheck(t)
    \/ \E t \in Tasks : FetchOk(t, DefaultExpiresIn)
    \/ \E t \in Tasks : Send(t)
    \/ \E t \in Tasks : RespPage(t)
    \/ \E t \in Tasks : RespGetPage(t)
    \/ Tick

SpecParams == InitParams /\ [][NextParamsSpec]_vars

\* the client of get_client() serving one logical request of every caller, all
\* issued in the same second, the limiter one admission short of its capacity,
\* with one abnormal answer possible
InitLive ==
    /\ InitTasks
    /\ burst = NoHistory
    /\ server = Pages10105
    /\ calls = NTasks
    /\ faults = 1
    /\ max_requests = ClientMaxRequests
    /\ window_seconds = ClientWindowSeconds
    /\ timestamps = Earlier(ClientMaxRequests - 1)
    /\ admitted = timestamps
    /\ token = NoToken

\* a sleep that is over returns before the clock moves on
NoSleepDue == \A t \in Tasks : pc[t] \in {"rl_sleep", "backoff"} => now < wake[t]

\* answers may take up to a window and a second more
LiveHorizon == ClientWindowSeconds + 1

\* a second of a sleep that is not over yet passes
SleepElapses ==
    \E t \in Tasks : pc[t] \in {"rl_sleep", "backoff"} /\ NoSleepDue /\ TickTo(wake[t])

NextLive ==
    \/ \E t \in Tasks : now = 0 /\ StartRequest(t)
    \/ \E t \in Tasks : RlEnter(t)
    \/ \E t \in Tasks : RlWake(t)
    \/ \E t \in Tasks : RlBody(t)
    \/ \E t \in Tasks : RlSleepDone(t)
    \/ \E t \in Tasks : TkEnter(t)
    \/ \E t \in Tasks : TkWake(t)
    \/ \E t \in Tasks : TkCheck(t)
    \/ \E t \in Tasks : FetchOk(t, DefaultExpiresIn)
    \/ \E t \in Tasks : \E e \in {"RequestError", "HTTPStatusError"} : FetchFail(t, e)
    \/ \E t \in Tasks : Send(t)
    \/ \E t \in Tasks : RespOk(t)
    \/ \E t \in Tasks : Resp401(t)
    \/ \E t \in Tasks : RespStatus(t)
    \/ \E t \in Tasks : RespTransport(t)
    \/ \E t \in Tasks : BackoffDone(t)
    \/ NoSleepDue /\ TickTo(LiveHorizon)
    \/ SleepElapses

\* the event loop runs every task that is ready and every sleep that is over,
\* the clock advances, and every token fetch and every HTTPS call is answered
FairLive ==
    /\ \A t \in Tasks : WF_vars(RlEnter(t)) /\ WF_vars(RlWake(t))
                          /\ WF_vars(RlBody(t)) /\ WF_vars(RlSleepDone(t))
                          /\ WF_vars(TkEnter(t)) /\ WF_vars(TkWake(t))
                          /\ WF_vars(TkCheck(t))
                          /\ WF_vars(FetchOk(t, DefaultExpiresIn))
                          /\ WF_vars(Send(t)) /\ WF_vars(RespOk(t))
                          /\ WF_vars(BackoffDone(t))
    /\ WF_vars(SleepElapses)

SpecLive == InitLive /\ [][NextLive]_vars /\ FairLive

\* ------------------------------------------------------------------ claims
\* C1: for every interleaving of concurrent callers of RateLimiter.acquire,
\* the admissions whose recorded instant lies in the trailing window
\* (now - window_seconds, now] never number more than max_requests.
C1_WindowBound == Len(admitted) <= max_requests

\* the limiter is full, one caller sleeps in acquire and another queues behind it
C1_Witness ==
    \E t, u \in Tasks :
        /\ pc[t] = "rl_sleep"
        /\ pc[u] = "rl_wait"
        /\ Len(admitted) = max_requests

\* C2: never two token fetches in flight; and when every caller called
\* _get_token while no Token was cached and all of them have returned, exactly
\* one fetch was answered and all hold the same Token.
C2_SingleFetch ==
    /\ Cardinality({t \in Tasks : pc[t] = "fetching"}) <= 1
    /\ (\A t \in Tasks : pc[t] = "done" /\ hist[t].saw_none)
          => /\ fetch_count = 1
             /\ \A t, u \in Tasks : tok[t] = tok[u]

C4_BackoffByFailure ==
    \A t \in Tasks :
        /\ (pc[t] = "backoff" /\ hist[t].last_k >= 0)
              => hist[t].last_d = 2 ^ hist[t].last_k
        /\ (pc[t] = "failed" /\ exc[t] = "RequestError"
              /\ hist[t].fetch_failed_at = -1
              /\ hist[t].failures = hist[t].attempts)
              => hist[t].attempts = max_retries + 1

\* C5: a logical request makes at most max_retries retries in response to
\* transport failures, whatever 401 answers come in between.
C5_RetryBound ==
    \A t \in Tasks : hist[t].backoff_retries <= max_retries

\* C6: the first 401 answer a logical request receives triggers the token
\* invalidation and a retry, whatever attempts preceded it.
C6_First401Reauth ==
    \A t \in Tasks :
        hist[t].n401 >= 1
           => hist[t].invalidations = 1 /\ hist[t].reauth_retries = 1

\* C7: a non-2xx answer other than a first 401 ends the logical request at once
\* with HTTPStatusError: no attempt, sleep or invalidation follows it.
C7_StatusFatal ==
    \A t \in Tasks :
        hist[t].fatal_at > 0
           => /\ pc[t] = "failed"
              /\ exc[t] = "HTTPStatusError"
              /\ stack[t] = <<>>
              /\ hist[t].attempts = hist[t].fatal_at
              /\ hist[t].invalidations = hist[t].reauth_retries

\* a retry, made after a backoff sleep, was answered with a non-2xx status
C7_Witness ==
    \E t \in Tasks :
        /\ hist[t].fatal_at > 1
        /\ hist[t].backoff_retries >= 1
        /\ pc[t] = "failed"

\* C8: a failed token fetch is fatal to the logical request that triggered it:
\* the request ends there, with no further fetch, sleep or API attempt.
C8_FetchFatal ==
    \A t \in Tasks :
        hist[t].fetch_failed_at >= 0
           => pc[t] = "failed" /\ hist[t].attempts = hist[t].fetch_failed_at

\* the payload of a page as it appears in the result: the items of a list
\* body, or the object body as one element
Payload(page) == IF page.body.is_list THEN page.body.items ELSE page.body.obj

RECURSIVE ConcatPages(_, _)
\* the payloads of the server's pages 1..n, in page order
ConcatPages(srv, n) ==
    IF n = 0 THEN <<>> ELSE ConcatPages(srv, n - 1) \o Payload(PageOf(srv, n))

\* the page announces a further page: has-next is "true" in any letter case
ReportsNext(page) == page.has_next \in {"true", "True", "TRUE"}

\* C9: when get_paginated returns after n requests, the result is the
\* concatenation in page order of the payloads of the server's pages 1..n (one
\* request per page), no request followed a page that reports no next page,
\* and it stopped at page n because that page reports no next page or no
\* (or an empty) continuation token, or because n is the ceiling; for pages of 10, 10 and 5
\* items it returns 25 items after exactly 3 requests.
C9_Concatenation ==
    \A t \in Tasks :
        (op[t] = "get_paginated" /\ pc[t] = "done") =>
            LET n == pg_requests[t] IN
            /\ all_results[t] = ConcatPages(server, n)
            /\ \A k \in 1..(n - 1) : ReportsNext(PageOf(server, k))
            /\ \/ n = max_pages[t]
               \/ ~ReportsNext(PageOf(server, n))
               \/ ~PageOf(server, n).continuable.present
               \/ PageOf(server, n).continuable.value = 0
            /\ (server = Pages10105 /\ max_pages[t] >= 3)
                  => n = 3 /\ Len(all_results[t]) = 25

\* the pages of 10, 10 and 5 items were fetched and returned
C9_Witness ==
    \E t \in Tasks :
        /\ pc[t] = "done"
        /\ server = Pages10105
        /\ pg_requests[t] = 3
        /\ Len(all_results[t]) = 25

\* C10: get_paginated never issues more requests than its ceiling; against a
\* server that reports has-next=true with a token on every page it returns,
\* without an error, what the ceiling's number of requests accumulated.
C10_Ceiling ==
    \A t \in Tasks :
        /\ pg_requests[t] <= max_pages[t]
        /\ (op[t] = "get_paginated" /\ server.endless)
              => /\ pc[t] # "failed"
                 /\ pc[t] = "done"
                       => /\ pg_requests[t] = max_pages[t]
                          /\ all_results[t] = ConcatPages(server, max_pages[t])

\* the default ceiling of 100 pages stopped the traversal of an endless server
C10_Witness ==
    \E t \in Tasks :
        /\ server.endless
        /\ pc[t] = "done"
        /\ max_pages[t] = DefaultMaxPages
        /\ pg_requests[t] = DefaultMaxPages
        /\ Len(all_results[t]) = DefaultMaxPages

\* C11 as claimed: get_page makes one logical request, sends the token the
\* caller supplied as the request's continuable parameter, and returns that
\* same token in the result's continuable field.
C11_TokenEchoed ==
    \A t \in Tasks :
        (op[t] = "get_page" /\ Truthy(args[t])) =>
            /\ pg_requests[t] = 1
            /\ pc[t] = "inflight" => params[t].continuable = args[t]
            /\ page_result[t].returned => page_result[t].continuable = args[t]

\* C11 amended: get_page makes one logical request (one HTTPS attempt when
\* nothing fails), sends a non-empty token the caller supplied unchanged as the
\* request's continuable parameter (none otherwise), and returns in the
\* result's continuable field the x-meta-continuable header of the page the
\* server answered with, unchanged, together with that page's body and has-next.
C11_SinglePage ==
    \A t \in Tasks :
        op[t] = "get_page" =>
            /\ pg_requests[t] = 1
            /\ pc[t] = "inflight" =>
                  /\ params[t].continuable = (IF Truthy(args[t]) THEN args[t] ELSE NoHeader)
                  /\ params[t].mode = "CONTINUABLE"
            /\ page_result[t].returned <=> pc[t] = "done"
            /\ page_result[t].returned =>
                  LET k == IF Truthy(args[t]) THEN args[t].value + 1 ELSE 1 IN
                  /\ page_result[t].continuable = PageOf(server, k).continuable
                  /\ page_result[t].data = PageOf(server, k).body
                  /\ page_result[t].has_next = ReportsNext(PageOf(server, k))
                  /\ faults = 1 => hist[t].attempts = 1

\* the caller passed the first page's token and got the second page with the
\* second page's token
C11_Witness ==
    \E t \in Tasks :
        /\ server = Pages10105
        /\ args[t] = Header(1)
        /\ page_result[t].returned
        /\ page_result[t].continuable = Header(2)
        /\ Len(page_result[t].data.items) = 10

\* C12: starting from an empty window, each of the first max_requests calls of
\* acquire issued less than window_seconds after the first admission is admitted
\* when it is issued, without suspension; the next call issued within that
\* window is suspended, its sleep is due exactly window_seconds after the first
\* admission, and it is admitted no earlier than that (max_requests = 10, and
\* window_seconds = 1 among the windows checked).
C12_Burst ==
    \A t \in Tasks :
        LET a == acq[t] IN
        (a.k >= 1 /\ a.since_first >= 0) =>
            /\ a.k <= max_requests =>
                  /\ ~a.suspended
                  /\ pc[t] \notin {"rl_wait", "rl_sleep"}
                  /\ a.elapsed = 0
            /\ (a.k = max_requests + 1 /\ pc[t] # "rl_body") =>
                  /\ a.suspended
                  /\ a.since_first + a.wait = window_seconds
                  /\ a.admitted => a.since_first + a.elapsed >= window_seconds

\* ten calls were admitted in the first second and the eleventh, issued in that
\* second, was admitted one second after the first
C12_Witness ==
    \E t \in Tasks :
        /\ max_requests = ClientMaxRequests
        /\ window_seconds = ClientWindowSeconds
        /\ acq[t].k = ClientMaxRequests + 1
        /\ acq[t].since_first = 0
        /\ acq[t].admitted
        /\ acq[t].elapsed = ClientWindowSeconds

\* C13: a token built at T with advertised lifetime L reads as expired exactly
\* from T + L - 60 on: not expired at any earlier instant, expired at that
\* instant and after; with L = 3600 it is expired at T + 3540 and not at
\* T + 3539, a full minute before T + 3600.
C13_BufferedExpiry ==
    observed.valid =>
        LET T == observed.issued.at
            L == observed.issued.lifetime
        IN /\ observed.value <=> observed.at >= T + L - ExpiryBuffer
           /\ (L = DefaultExpiresIn /\ observed.at = T + DefaultExpiresIn - ExpiryBuffer)
                 => observed.value
           /\ (L = DefaultExpiresIn /\ observed.at = T + DefaultExpiresIn - ExpiryBuffer - 1)
                 => ~observed.value

\* a token advertised for 3600 s was read as expired 3540 s after it was built
C13_Witness ==
    /\ observed.valid
    /\ observed.issued.lifetime = DefaultExpiresIn
    /\ observed.at = observed.issued.at + DefaultExpiresIn - ExpiryBuffer
    /\ observed.value

\* the sequence is in non-decreasing order
NonDecreasing(ts) == \A i, j \in 1..Len(ts) : i < j => ts[i] <= ts[j]

\* C14: in every reachable state the timestamps are in non-decreasing order and
\* number at most max_requests; and every step in which acquire decides between
\* admitting and sleeping leaves no timestamp that is window_seconds old or
\* older at the instant of the decision.
C14_WindowInvariant ==
    /\ [](NonDecreasing(timestamps) /\ Len(timestamps) <= max_requests)
    /\ [][\A t \in Tasks :
             (pc[t] = "rl_body" /\ pc'[t] # "rl_body") =>
                 \A i \in 1..Len(timestamps') :
                     now - timestamps'[i] < window_seconds]_vars

\* more calls were admitted than the window holds, and the full window records
\* two different instants
C14_Witness ==
    /\ Len(timestamps) = max_requests
    /\ max_requests > 1
    /\ timestamps[1] < timestamps[max_requests]
    /\ calls = 0
    /\ \A t \in Tasks : pc[t] \in {"idle", "done"}

\* the tasks queued on lock l are exactly the tasks waiting at position w, each
\* queued once, and the lock is held exactly when a task is inside the block
WellHeld(l, w, inside) ==
    /\ \A t \in Tasks : (pc[t] = w) <=> (\E i \in 1..Len(l.waiters) : l.waiters[i] = t)
    /\ \A i, j \in 1..Len(l.waiters) : l.waiters[i] = l.waiters[j] => i = j
    /\ l.locked <=> \E t \in Tasks : pc[t] \in inside
    /\ Cardinality({t \in Tasks : pc[t] \in inside}) <= 1

\* C15: whenever tasks suspended in acquire (lock wait or sleep) or in
\* _get_token (lock wait or fetch) are cancelled, each lock is held only by a
\* task inside its block and queues only tasks that wait for it, the timestamps
\* stay ordered, within max_requests and within the window bound, the cached
\* token is absent or the token of the last answered fetch; and every caller
\* that is not itself cancelled is eventually admitted, and every caller of
\* _get_token eventually gets a token or the error of its own fetch.
C15_CancelSafe ==
    /\ [](/\ WellHeld(rate_lock, "rl_wait", {"rl_body", "rl_sleep"})
          /\ WellHeld(token_lock, "tk_wait", {"tk_check", "fetching"})
          /\ NonDecreasing(timestamps)
          /\ Len(timestamps) <= max_requests
          /\ Len(admitted) <= max_requests
          /\ token = NoToken \/ token = NewToken(fetch_count, issued.at, issued.lifetime))
    /\ \A t \in Tasks :
          /\ (pc[t] \in {"rl_acquire", "rl_wait", "rl_body", "rl_sleep"})
                 ~> (pc[t] \in {"done", "cancelled"})
          /\ (pc[t] \in {"tk_acquire", "tk_wait", "tk_check", "fetching"})
                 ~> (pc[t] \in {"done", "cancelled", "failed"})

\* a caller was cancelled in its sleep, holding the lock; another caller holds
\* the lock now and sleeps in turn
C15_Witness ==
    \E t, u \in Tasks :
        /\ pc[t] = "cancelled" /\ op[t] = "acquire" /\ wake[t] > 0
        /\ pc[u] = "rl_sleep"

\* a token is cached and the current instant is before the instant it was built
\* plus its advertised lifetime less the buffer
Usable(tk, iss, t) == tk # NoToken /\ t < iss.at + iss.lifetime - ExpiryBuffer

\* C16: when _get_token, holding the lock, finds a usable cached token it returns
\* that token and starts no fetch, leaving the cache as it is; when no token is
\* cached or the cached one is not usable it starts a fetch; and a call that
\* fetched returns after exactly one fetch, the fetched token being a new one
\* that is cached when it is returned.
C16_FetchWhenNeeded ==
    [][\A t \in Tasks :
         /\ (pc[t] = "tk_check" /\ pc'[t] # "tk_check") =>
               IF Usable(token, issued, now)
               THEN /\ pc'[t] = "done"
                    /\ tok'[t] = token
                    /\ token' = token
                    /\ fetch_count' = fetch_count
                    /\ hist'[t].fetches = 0
               ELSE /\ pc'[t] = "fetching"
                    /\ hist'[t].fetches = 1
                    /\ token' = token
         /\ (pc[t] = "fetching" /\ pc'[t] = "done") =>
               /\ fetch_count' = fetch_count + 1
               /\ hist'[t].fetches = 1
               /\ token' \notin {token, NoToken}
               /\ tok'[t] = token']_vars

\* one caller fetched and a later caller was returned the token it cached
C16_Witness ==
    \E t, u \in Tasks :
        /\ pc[t] = "done" /\ hist[t].fetches = 1
        /\ pc[u] = "done" /\ hist[u].fetches = 0
        /\ tok[u] = token /\ tok[t] = token /\ token # NoToken

\* C17: whenever an HTTPS attempt of a logical request is in flight, the first
\* one or a retry after a 401 or after a transport failure, the three last
\* steps of its pipeline were: RateLimiter.acquire returned, then _get_token
\* returned, then the attempt was issued; and the attempt carries the
\* Authorization header "<token_type> <access_token>" of the token that
\* _get_token returned.
C17_AcquireThenToken ==
    \A t \in Tasks :
        hist[t].attempts >= 1 =>
            /\ hist[t].auth[2] # 0
            /\ pc[t] = "inflight" =>
                  /\ hist[t].trail = <<"rate", "token", "send">>
                  /\ hist[t].auth = <<"Bearer", tok[t].id>>
                  /\ tok[t] # NoToken

\* the retry after a 401 failed at transport level and its retry is in flight
C17_Witness ==
    \E t \in Tasks :
        /\ pc[t] = "inflight"
        /\ hist[t].attempts = 3
        /\ hist[t].reauth_retries = 1
        /\ hist[t].backoff_retries = 1
        /\ hist[t].auth = <<"Bearer", tok[t].id>>

\* C18: when the answer to the n-th request of get_paginated arrives, a further
\* request is issued if and only if the n-th page's x-meta-has-next header is
\* "true" in any letter case, its x-meta-continuable header is present and not
\* empty, and n is below the ceiling; otherwise get_paginated returns.
C18_ContinueIff ==
    [][\A t \in Tasks :
         (op[t] = "get_paginated" /\ pc[t] = "inflight" /\ pc'[t] # "inflight") =>
             LET n == pg_requests[t]
                 p == PageOf(server, n)
             IN IF /\ ReportsNext(p)
                   /\ p.continuable.present
                   /\ p.continuable.value # 0
                   /\ n < max_pages[t]
                THEN pc'[t] = "rl_acquire" /\ pg_requests'[t] = n + 1
                ELSE pc'[t] = "done" /\ pg_requests'[t] = n]_vars

\* get_paginated returned after one request because the page reported a next
\* page with an empty continuation token
C18_Witness ==
    \E t \in Tasks :
        /\ server = EmptyTokenPages
        /\ pc[t] = "done"
        /\ pg_requests[t] = 1
        /\ max_pages[t] > 1

\* C19: every request issued by get_paginated and by get_page carries the query
\* parameter mode=CONTINUABLE, from the first request on, whatever arguments
\* the caller passed.
C19_AlwaysContinuable ==
    \A t \in Tasks :
        (op[t] \in {"get_paginated", "get_page"} /\ pc[t] = "inflight") =>
            params[t].mode = "CONTINUABLE"

\* the shared state of the client other than the cached Token, the RateWindow
\* timestamps and self._client is as it was before the call: both locks are
\* free and the limiter's configuration is that of __init__
RestUnchanged ==
    /\ rate_lock = FreeLock
    /\ token_lock = FreeLock
    /\ max_requests = ClientMaxRequests
    /\ window_seconds = ClientWindowSeconds

\* C20 as stated: a logical request that completes successfully changes no
\* shared state other than the cached Token and the RateWindow timestamps; in
\* particular self._client is what it was when the call began.
C20_OnlyTokenAndWindow ==
    \A t \in Tasks :
        (op[t] = "request" /\ pc[t] = "done") =>
            /\ RestUnchanged
            /\ http_client = hist[t].client0

\* C20: a logical request that completes successfully changes no shared state
\* other than the cached Token, the RateWindow timestamps and self._client;
\* self._client is replaced, once, by a newly created open client when the call
\* found none or a closed one, and is left alone when it found an open one.
C20_FrameWithClient ==
    \A t \in Tasks :
        (op[t] = "request" /\ pc[t] = "done") =>
            LET c0 == hist[t].client0 IN
            /\ RestUnchanged
            /\ ~http_client.is_closed
            /\ IF c0 = NoClient \/ c0.is_closed
               THEN http_client.id = c0.id + 1 /\ clients_made = c0.id + 1
               ELSE http_client = c0 /\ clients_made = c0.id

\* a request succeeded after a 401 and a token fetch and left the client it
\* created on its first attempt in place
C20_Witness ==
    \E t \in Tasks :
        /\ op[t] = "request"
        /\ pc[t] = "done"
        /\ hist[t].client0 = NoClient
        /\ http_client = NewClient(1)
        /\ hist[t].attempts >= 2
        /\ token # NoToken
        /\ timestamps # <<>>

\* the httpx.AsyncClient objects the client created that are still open
OpenClients == (1..clients_made) \ closed

\* C21: for every interleaving of close() with concurrent requests, at most
\* one open transport created by the client exists at a time, and at the
\* moment close() completes every transport the client created has been closed.
C21_TransportReleased ==
    /\ [](Cardinality(OpenClients) <= 1)
    /\ [][\A t \in Tasks :
            (op'[t] = "close" /\ pc[t] # "done" /\ pc'[t] = "done") =>
                OpenClients' = {}]_vars

\* C22: the error that leaves _request leaves get, post, get_raw, get_page and
\* get_paginated unchanged: the call fails with exactly that error and returns
\* nothing; when the request for page k of get_paginated fails, the pages
\* 1..k-1 it accumulated are not returned. A call that returns met no such error.
C22_ErrorPropagates ==
    \A t \in Tasks :
        /\ hist[t].raised # "none" =>
               /\ pc[t] = "failed"
               /\ exc[t] = hist[t].raised
               /\ ~page_result[t].returned
        /\ pc[t] = "done" => hist[t].raised = "none" /\ exc[t] = "none"
        /\ pc[t] = "failed" => exc[t] = hist[t].raised

\* the request for the second page of get_paginated failed after the first
\* page's ten items had been accumulated
C22_Witness ==
    \E t \in Tasks :
        /\ op[t] = "get_paginated"
        /\ pc[t] = "failed"
        /\ pg_requests[t] = 2
        /\ Len(all_results[t]) = 10
        /\ exc[t] = "RequestError"

\* the errors _request classifies: a non-2xx status and a transport failure
Classified == {"HTTPStatusError", "RequestError"}

C24_TokenChain ==
    \A t \in Tasks :
        op[t] = "get_paginated" =>
            LET r == reqs[t] IN
            /\ Len(r) = pg_requests[t]
            /\ Len(r) >= 1 => r[1].continuable = given[t].map.continuable
            /\ \A k \in 2..Len(r) :
                  /\ r[k].continuable = ServerPage(server, r[k - 1]).continuable
                  /\ r[k].mode = r[1].mode
                  /\ r[k].size = r[1].size
            /\ pc[t] \in {"send", "inflight"} => params[t] = r[Len(r)]

\* the caller's params held the token of the first page: two requests were
\* made, for the second and the third page of the 10/10/5 collection
C24_Witness ==
    \E t \in Tasks :
        /\ op[t] = "get_paginated"
        /\ pc[t] = "done"
        /\ server = Pages10105
        /\ given[t].map.continuable = Header(1)
        /\ Len(reqs[t]) = 2
        /\ reqs[t][1].continuable = Header(1)
        /\ reqs[t][2].continuable = Header(2)
        /\ Len(all_results[t]) = 15

\* C30: after get_paginated or get_page returns, the mapping the caller passed
\* as params (the object the call worked on) holds the same keys and values
\* as before the call.
C30_ParamsUnchanged ==
    \A t \in Tasks :
        (op[t] \in {"get_paginated", "get_page"} /\ pc[t] = "done" /\ given[t].passed)
            => params[t] = given[t].map

\* C25: every Token _get_token returns is usable at the moment it is returned:
\* the current time is before its expires_at, whatever lifetime the token
\* endpoint advertised, lifetimes of 60 seconds or less included.
C25_ReturnedUsable ==
    [][\A t \in Tasks :
         (pc[t] \in {"tk_check", "fetching"} /\ pc'[t] \in {"done", "send"}) =>
             /\ tok'[t] # NoToken
             /\ now' < tok'[t].expires_at]_vars

\* C26: for every interleaving of concurrent requests, the attempt that
\* follows a re-authenticated 401 is sent with a token other than the one that
\* received the 401, and a token fetch was answered between the invalidation
\* and that attempt's HTTPS call.
C26_RetryWithNewToken ==
    \A t \in Tasks :
        (hist[t].reauth_retries = 1 /\ pc[t] = "inflight") =>
            /\ tok[t] # NoToken
            /\ tok[t] # hist[t].tok401
            /\ hist[t].auth = AuthorizationHeader(tok[t])
            /\ hist[t].auth # AuthorizationHeader(hist[t].tok401)
            /\ fetch_count > hist[t].fc401

\* two callers sent with the same token; each received a 401 and retried, one
\* of them with a token the other one had fetched
C26_Witness ==
    \E t, u \in Tasks :
        /\ t # u
        /\ hist[t].reauth_retries = 1 /\ hist[u].reauth_retries = 1
        /\ hist[t].tok401 = hist[u].tok401
        /\ pc[t] = "done" /\ pc[u] = "done"
        /\ tok[t] = tok[u]

\* C27: a 401 answer to a request sent with Token T discards the cached Token
\* only if the cached Token is still T; so when all concurrent requests were
\* sent with the same Token and each received a 401, exactly one token fetch
\* follows the first one.
C27_DiscardOnlyOwn ==
    /\ [][\A t \in Tasks :
            (pc[t] = "inflight" /\ hist'[t].invalidations = hist[t].invalidations + 1)
                => token' = (IF token = tok[t] THEN NoToken ELSE token)]_vars
    /\ []((\A t \in Tasks : pc[t] = "done" /\ hist[t].reauth_retries = 1
                             /\ hist[t].tok401 = NewToken(1, 0, DefaultExpiresIn))
             => fetch_count = 2)

\* C28: the HTTPS calls to the API issued within any trailing window_seconds
\* interval never number more than max_requests, also when callers wait in
\* _get_token for a token fetch between their admission and their HTTPS call.
C28_DispatchBound == Len(dispatched) <= max_requests

\* C29: when a token fetch fails, the cached Token is what it was before the
\* fetch, absent or the same unusable Token; the token lock is released; and
\* the next caller of _get_token that reaches the check starts a fresh fetch.
C29_FailedFetchFrame ==
    /\ [][\A t \in Tasks :
            (pc[t] = "fetching" /\ pc'[t] \in {"failed", "backoff"}) =>
                /\ token' = token
                /\ token = NoToken \/ IsExpired(token, now)
                /\ ~token_lock'.locked]_vars
    /\ [][\A t \in Tasks :
            (fetch_failed /\ pc[t] = "tk_check" /\ pc'[t] # "tk_check") =>
                /\ pc'[t] = "fetching"
                /\ hist'[t].fetches = hist[t].fetches + 1]_vars

\* a caller's token fetch failed, and the next caller is fetching afresh
C29_Witness ==
    \E t, u \in Tasks :
        /\ pc[t] = "failed"
        /\ hist[t].fetch_failed_at >= 0
        /\ fetch_failed
        /\ pc[u] = "fetching"

====
